---- MODULE Spec2Model ----
(***************************************************************************)
(* Model of the button module (src/src/button.c): setup (button_init,      *)
(* button_enable_interrupts), the GPIO edge callback button_pressed, the   *)
(* one-shot long-press timer timer_button with its expiry function         *)
(* timer_button_cb, and the events offered to the zbus channel             *)
(* chan_button_evt.                                                        *)
(*                                                                         *)
(* button_pressed is modelled statement by statement (pc is its position), *)
(* because the timer expiry runs in the system-timer interrupt and may     *)
(* run between any two of its statements.  Two edge callbacks never        *)
(* overlap.  Time is counted in milliseconds; a callback takes no          *)
(* measurable time.                                                        *)
(***************************************************************************)
EXTENDS Integers, Sequences, FiniteSets

VARIABLES
    entry,               \* which entry point runs: "app" (src/main.c) or "test" (test setup)
    boot,                \* position of the entry point: "start", "inited", "done"
    gpio_ready,          \* hardware: result of gpio_is_ready_dt(&button)
    gpio_cfg_ret,        \* hardware: result of gpio_pin_configure_dt(&button, GPIO_INPUT)
    gpio_int_ret,        \* hardware: result of gpio_pin_interrupt_configure_dt(...)
    init_ret,            \* value returned by button_init (meaningful once called)
    enable_ret,          \* value returned by button_enable_interrupts (meaningful once called)
    configure_calls,     \* number of gpio_pin_configure_dt calls made
    pin_configured,      \* the pin was configured as input
    int_configured,      \* both-edge interrupts were configured
    callback_registered, \* button_pressed was added as the GPIO callback
    pc,                  \* position inside button_pressed, "idle" when not executing
    msg,                 \* msg.evt, the local of button_pressed
    longpress_detected,  \* the static flag of button.c
    timer_running,       \* timer_button is counting down
    timer_remaining,     \* milliseconds until timer_button expires (when running)
    published,           \* every event handed to zbus_chan_pub, in call order
    pub_rc,              \* return code of the most recent zbus_chan_pub
    last_level,          \* pin level sampled by the most recent callback (TRUE = pressed)
    held_ms,             \* ms since the most recent press-path callback, frozen by a release-path callback
    alternating,         \* the callbacks so far sampled press, release, press, ...
    cycle_start,         \* Len(published) when the most recent press-path callback began
    call_start,          \* Len(published) when the most recent callback began
    expired              \* timer_button_cb ran since the most recent press-path callback began

vars == <<entry, boot, gpio_ready, gpio_cfg_ret, gpio_int_ret, init_ret, enable_ret,
          configure_calls, pin_configured, int_configured, callback_registered,
          pc, msg, longpress_detected, timer_running, timer_remaining,
          published, pub_rc, last_level, held_ms, alternating, cycle_start,
          call_start, expired>>

setup_vars == <<entry, boot, gpio_ready, gpio_cfg_ret, gpio_int_ret, init_ret, enable_ret,
                configure_calls, pin_configured, int_configured, callback_registered>>

ghost_vars == <<last_level, held_ms, alternating, cycle_start, call_start, expired>>

\* enum button_evt_type
BUTTON_EVT_UNDEFINED == "UNDEFINED"
BUTTON_EVT_PRESSED == "PRESSED"
BUTTON_EVT_RELEASED == "RELEASED"
BUTTON_EVT_LONGPRESS == "LONGPRESS"

\* K_SECONDS(3), in milliseconds
LONGPRESS_MS == 3000

\* errno value returned by button_init when the device is not ready
ENODEV == 19

\* Bounds of the model
MaxPublished == 6
MaxHeld == 4000

\* amounts of time that may pass between two events
Durations == {1000, 1999, 2000}

\* results the GPIO driver may give for a configuration request (0, -EIO, -EINVAL)
GpioRets == {0, -5, -22}

\* results zbus_chan_pub may give with K_NO_WAIT (0, -EBUSY, -EAGAIN)
PubRets == {0, -16, -11}

Init ==
    /\ entry \in {"app", "test"}
    /\ boot = "start"
    /\ gpio_ready \in BOOLEAN
    /\ gpio_cfg_ret \in GpioRets
    /\ gpio_int_ret \in GpioRets
    /\ init_ret = 0
    /\ enable_ret = 0
    /\ configure_calls = 0
    /\ pin_configured = FALSE
    /\ int_configured = FALSE
    /\ callback_registered = FALSE
    /\ pc = "idle"
    /\ msg = BUTTON_EVT_UNDEFINED
    /\ longpress_detected = FALSE
    /\ timer_running = FALSE
    /\ timer_remaining = 0
    /\ published = <<>>
    /\ pub_rc = 0
    /\ last_level = FALSE
    /\ held_ms = 0
    /\ alternating = TRUE
    /\ cycle_start = 0
    /\ call_start = 0
    /\ expired = FALSE

(***************************************************************************)
(* Setup                                                                   *)
(***************************************************************************)

\* button_init without the readiness check
button_init_unchecked ==
    /\ configure_calls' = configure_calls + 1
    /\ pin_configured' = (gpio_cfg_ret = 0)
    /\ init_ret' = IF gpio_cfg_ret # 0 THEN gpio_cfg_ret ELSE 0

\* int button_init(void)
button_init ==
    IF ~gpio_ready
    THEN /\ init_ret' = -ENODEV
         /\ UNCHANGED <<configure_calls, pin_configured>>
    ELSE /\ configure_calls' = configure_calls + 1
         /\ pin_configured' = (gpio_cfg_ret = 0)
         /\ init_ret' = IF gpio_cfg_ret # 0 THEN gpio_cfg_ret ELSE 0

\* button_enable_interrupts adding the callback before looking at the result
button_enable_interrupts_eager ==
    /\ callback_registered' = TRUE
    /\ int_configured' = (gpio_int_ret = 0)
    /\ enable_ret' = gpio_int_ret

\* int button_enable_interrupts(void)
button_enable_interrupts ==
    IF gpio_int_ret # 0
    THEN /\ enable_ret' = gpio_int_ret
         /\ UNCHANGED <<int_configured, callback_registered>>
    ELSE /\ int_configured' = TRUE
         /\ callback_registered' = TRUE
         /\ enable_ret' = 0

\* main() of the application: calls button_init and returns
Main ==
    /\ entry = "app"
    /\ boot = "start"
    /\ button_init
    /\ boot' = "done"
    /\ UNCHANGED <<entry, gpio_ready, gpio_cfg_ret, gpio_int_ret, enable_ret,
                   int_configured, callback_registered>>
    /\ UNCHANGED <<pc, msg, longpress_detected, timer_running, timer_remaining,
                   published, pub_rc>>
    /\ UNCHANGED ghost_vars

\* button_test_setup(), first call: button_init(), its result ignored
TestSetupInit ==
    /\ entry = "test"
    /\ boot = "start"
    /\ button_init
    /\ boot' = "inited"
    /\ UNCHANGED <<entry, gpio_ready, gpio_cfg_ret, gpio_int_ret, enable_ret,
                   int_configured, callback_registered>>
    /\ UNCHANGED <<pc, msg, longpress_detected, timer_running, timer_remaining,
                   published, pub_rc>>
    /\ UNCHANGED ghost_vars

\* button_test_setup(), second call: the input is set to released, then
\* button_enable_interrupts(), its result ignored
TestSetupEnable ==
    /\ entry = "test"
    /\ boot = "inited"
    /\ button_enable_interrupts
    /\ boot' = "done"
    /\ UNCHANGED <<entry, gpio_ready, gpio_cfg_ret, gpio_int_ret, init_ret,
                   configure_calls, pin_configured>>
    /\ UNCHANGED <<pc, msg, longpress_detected, timer_running, timer_remaining,
                   published, pub_rc>>
    /\ UNCHANGED ghost_vars

(***************************************************************************)
(* The timer                                                               *)
(***************************************************************************)

\* k_timer_start arming a countdown shorter than 3 s
k_timer_start_short ==
    /\ timer_running' = TRUE
    /\ timer_remaining' = LONGPRESS_MS - 1001

\* k_timer_start that leaves a countdown already pending as it is
k_timer_start_keep ==
    /\ timer_running' = TRUE
    /\ timer_remaining' = IF timer_running THEN timer_remaining ELSE LONGPRESS_MS

\* k_timer_start(&timer_button, K_SECONDS(3), K_NO_WAIT): (re)arms the one-shot
k_timer_start ==
    /\ timer_running' = TRUE
    /\ timer_remaining' = LONGPRESS_MS

\* k_timer_stop(&timer_button)
k_timer_stop ==
    /\ timer_running' = FALSE
    /\ timer_remaining' = 0

\* timer_button_cb that leaves the flag alone
timer_button_cb_noop ==
    longpress_detected' = longpress_detected

\* void timer_button_cb(struct k_timer *timer_id)
timer_button_cb ==
    longpress_detected' = TRUE

\* an expiry that publishes LONGPRESS itself, while the button is still held
TimerExpiry_publishes ==
    /\ timer_running
    /\ timer_remaining = 0
    /\ timer_button_cb
    /\ timer_running' = FALSE
    /\ expired' = TRUE
    /\ published' = Append(published, BUTTON_EVT_LONGPRESS)
    /\ UNCHANGED <<timer_remaining, pc, msg, pub_rc>>
    /\ UNCHANGED <<last_level, held_ms, alternating, cycle_start, call_start>>
    /\ UNCHANGED setup_vars

\* The countdown of timer_button has run out: the kernel calls the expiry
\* function.  It may run between any two statements of button_pressed.
TimerExpiry ==
    /\ timer_running
    /\ timer_remaining = 0
    /\ timer_button_cb
    /\ timer_running' = FALSE
    /\ expired' = TRUE
    /\ UNCHANGED <<timer_remaining, pc, msg, published, pub_rc>>
    /\ UNCHANGED <<last_level, held_ms, alternating, cycle_start, call_start>>
    /\ UNCHANGED setup_vars

\* d milliseconds pass while no callback executes.  A due expiry is served
\* before more time passes.
Advance(d) ==
    /\ pc = "idle"
    /\ timer_running \/ last_level
    /\ timer_running => (timer_remaining > 0 /\ d <= timer_remaining)
    /\ last_level => held_ms + d <= MaxHeld
    /\ timer_remaining' = IF timer_running THEN timer_remaining - d ELSE timer_remaining
    /\ held_ms' = IF last_level THEN held_ms + d ELSE held_ms
    /\ UNCHANGED <<pc, msg, longpress_detected, timer_running, published, pub_rc>>
    /\ UNCHANGED <<last_level, alternating, cycle_start, call_start, expired>>
    /\ UNCHANGED setup_vars

Tick ==
    \E d \in Durations \cup (IF timer_running /\ timer_remaining > 0
                             THEN {timer_remaining} ELSE {}) : Advance(d)

(***************************************************************************)
(* button_pressed, statement by statement                                  *)
(***************************************************************************)

\* zbus_chan_pub(&chan_button_evt, &msg, K_NO_WAIT) returning rc
zbus_chan_pub(rc) ==
    /\ published' = Append(published, msg)
    /\ pub_rc' = rc

\* Entry with the two branches exchanged (pin polarity read the wrong way round)
Entry_inverted(level) ==
    /\ callback_registered
    /\ pc = "idle"
    /\ Len(published) + 2 <= MaxPublished
    /\ msg' = BUTTON_EVT_UNDEFINED
    /\ pc' = IF level THEN "release" ELSE "press"
    /\ last_level' = level
    /\ alternating' = (alternating /\ level # last_level)
    /\ held_ms' = IF level THEN 0 ELSE held_ms
    /\ cycle_start' = IF level THEN Len(published) ELSE cycle_start
    /\ call_start' = Len(published)
    /\ expired' = IF level THEN FALSE ELSE expired
    /\ UNCHANGED <<longpress_detected, timer_running, timer_remaining, published, pub_rc>>
    /\ UNCHANGED setup_vars

\* lines 73, 75: the callback starts, msg is UNDEFINED, the pin is sampled
Entry(level) ==
    /\ callback_registered
    /\ pc = "idle"
    /\ Len(published) + 2 <= MaxPublished
    /\ msg' = BUTTON_EVT_UNDEFINED
    /\ pc' = IF level THEN "press" ELSE "release"
    /\ last_level' = level
    /\ alternating' = (alternating /\ level # last_level)
    /\ held_ms' = IF level THEN 0 ELSE held_ms
    /\ cycle_start' = IF level THEN Len(published) ELSE cycle_start
    /\ call_start' = Len(published)
    /\ expired' = IF level THEN FALSE ELSE expired
    /\ UNCHANGED <<longpress_detected, timer_running, timer_remaining, published, pub_rc>>
    /\ UNCHANGED setup_vars

\* lines 76, 77
PressSetFlag ==
    /\ pc = "press"
    /\ msg' = BUTTON_EVT_PRESSED
    /\ longpress_detected' = FALSE
    /\ pc' = "start_timer"
    /\ UNCHANGED <<timer_running, timer_remaining, published, pub_rc>>
    /\ UNCHANGED ghost_vars
    /\ UNCHANGED setup_vars

\* line 78
PressStartTimer ==
    /\ pc = "start_timer"
    /\ k_timer_start
    /\ pc' = "publish"
    /\ UNCHANGED <<msg, longpress_detected, published, pub_rc>>
    /\ UNCHANGED ghost_vars
    /\ UNCHANGED setup_vars

\* the release path without k_timer_stop
ReleaseStopTimer_nostop ==
    /\ pc = "release"
    /\ msg' = BUTTON_EVT_RELEASED
    /\ pc' = "publish"
    /\ UNCHANGED <<longpress_detected, timer_running, timer_remaining, published, pub_rc>>
    /\ UNCHANGED ghost_vars
    /\ UNCHANGED setup_vars

\* the release path without the assignment to msg.evt
ReleaseStopTimer_nomsg ==
    /\ pc = "release"
    /\ msg' = msg
    /\ k_timer_stop
    /\ pc' = "publish"
    /\ UNCHANGED <<longpress_detected, published, pub_rc>>
    /\ UNCHANGED ghost_vars
    /\ UNCHANGED setup_vars

\* lines 81, 82
ReleaseStopTimer ==
    /\ pc = "release"
    /\ msg' = BUTTON_EVT_RELEASED
    /\ k_timer_stop
    /\ pc' = "publish"
    /\ UNCHANGED <<longpress_detected, published, pub_rc>>
    /\ UNCHANGED ghost_vars
    /\ UNCHANGED setup_vars

\* line 86 followed by an early return when the channel rejects the event
Publish_return_on_error(rc) ==
    /\ pc = "publish"
    /\ zbus_chan_pub(rc)
    /\ pc' = IF rc = 0 THEN "check" ELSE "idle"
    /\ UNCHANGED <<msg, longpress_detected, timer_running, timer_remaining>>
    /\ UNCHANGED ghost_vars
    /\ UNCHANGED setup_vars

\* line 86: the event is offered once; the result is not looked at
Publish(rc) ==
    /\ pc = "publish"
    /\ zbus_chan_pub(rc)
    /\ pc' = "check"
    /\ UNCHANGED <<msg, longpress_detected, timer_running, timer_remaining>>
    /\ UNCHANGED ghost_vars
    /\ UNCHANGED setup_vars

\* lines 88, 89: the flag is read; when set, msg becomes LONGPRESS
CheckLongpress ==
    /\ pc = "check"
    /\ IF longpress_detected
       THEN msg' = BUTTON_EVT_LONGPRESS /\ pc' = "publish_long"
       ELSE msg' = msg /\ pc' = "idle"
    /\ UNCHANGED <<longpress_detected, timer_running, timer_remaining, published, pub_rc>>
    /\ UNCHANGED ghost_vars
    /\ UNCHANGED setup_vars

\* line 90
PublishLong(rc) ==
    /\ pc = "publish_long"
    /\ zbus_chan_pub(rc)
    /\ pc' = "clear"
    /\ UNCHANGED <<msg, longpress_detected, timer_running, timer_remaining>>
    /\ UNCHANGED ghost_vars
    /\ UNCHANGED setup_vars

\* the callback returning without line 92
ClearFlag_omitted ==
    /\ pc = "clear"
    /\ longpress_detected' = longpress_detected
    /\ pc' = "idle"
    /\ UNCHANGED <<msg, timer_running, timer_remaining, published, pub_rc>>
    /\ UNCHANGED ghost_vars
    /\ UNCHANGED setup_vars

\* line 92, then the callback returns
ClearFlag ==
    /\ pc = "clear"
    /\ longpress_detected' = FALSE
    /\ pc' = "idle"
    /\ UNCHANGED <<msg, timer_running, timer_remaining, published, pub_rc>>
    /\ UNCHANGED ghost_vars
    /\ UNCHANGED setup_vars

\* void button_pressed(dev, cb, pins): one step of the callback
button_pressed ==
    \/ \E level \in BOOLEAN : Entry(level)
    \/ PressSetFlag
    \/ PressStartTimer
    \/ ReleaseStopTimer
    \/ \E rc \in PubRets : Publish(rc)
    \/ CheckLongpress
    \/ \E rc \in PubRets : PublishLong(rc)
    \/ ClearFlag

Next ==
    \/ Main
    \/ TestSetupInit
    \/ TestSetupEnable
    \/ button_pressed
    \/ TimerExpiry
    \/ Tick

Spec == Init /\ [][Next]_vars


TypeOK ==
    /\ pc \in {"idle", "press", "start_timer", "release", "publish", "check",
               "publish_long", "clear"}
    /\ longpress_detected \in BOOLEAN
    /\ timer_running \in BOOLEAN
    /\ timer_remaining \in 0..LONGPRESS_MS
    /\ Len(published) <= MaxPublished
    /\ held_ms \in 0..MaxHeld

(***************************************************************************)
(* Properties                                                              *)
(***************************************************************************)

\* the events of the cycle begun by the most recent press-path callback
Cycle == SubSeq(published, cycle_start + 1, Len(published))

\* button_init has been called and has returned
InitCalled == boot # "start"

\* button_enable_interrupts has been called and has returned
EnableCalled == entry = "test" /\ boot = "done"

\* a release-path callback has returned and no callback has started since
ReleaseDone == pc = "idle" /\ ~last_level /\ published # <<>>

\* a press-path callback has returned and no callback has started since
PressDone == pc = "idle" /\ last_level

\* C1: with alternating edges from "no press outstanding", a press released
\* less than 3000 ms after its press edge publishes exactly
\* [PRESSED, RELEASED]; no LONGPRESS is published for it, at the release or
\* at any later time before the next press.
C1_ShortPress ==
    (alternating /\ ~last_level /\ held_ms < LONGPRESS_MS) =>
        /\ pc \notin {"publish_long", "clear"}
        /\ \A i \in DOMAIN Cycle : Cycle[i] # BUTTON_EVT_LONGPRESS
        /\ ReleaseDone => Cycle = <<BUTTON_EVT_PRESSED, BUTTON_EVT_RELEASED>>

C1_Witness ==
    /\ alternating
    /\ ReleaseDone
    /\ held_ms = LONGPRESS_MS - 1
    /\ ~timer_running
    /\ Cycle = <<BUTTON_EVT_PRESSED, BUTTON_EVT_RELEASED>>

\* C2: with alternating edges from "no press outstanding", a press held for
\* more than 3 s and then released publishes exactly
\* [PRESSED, RELEASED, LONGPRESS]: PRESSED alone at the press edge, RELEASED
\* then one LONGPRESS at the release edge.
C2_LongPress ==
    (alternating /\ held_ms > LONGPRESS_MS) =>
        /\ PressDone => Cycle = <<BUTTON_EVT_PRESSED>>
        /\ ReleaseDone =>
               Cycle = <<BUTTON_EVT_PRESSED, BUTTON_EVT_RELEASED, BUTTON_EVT_LONGPRESS>>

C2_Witness ==
    /\ alternating
    /\ ReleaseDone
    /\ held_ms > LONGPRESS_MS
    /\ Cycle = <<BUTTON_EVT_PRESSED, BUTTON_EVT_RELEASED, BUTTON_EVT_LONGPRESS>>

\* C3, as claimed: a press whose release edge is handled exactly 3000 ms
\* after its press edge publishes [PRESSED, RELEASED, LONGPRESS], whatever
\* the order of the timer expiry and the release callback at that instant.
C3_InclusiveThreshold ==
    (alternating /\ ReleaseDone /\ held_ms = LONGPRESS_MS) =>
        Cycle = <<BUTTON_EVT_PRESSED, BUTTON_EVT_RELEASED, BUTTON_EVT_LONGPRESS>>

\* C3, amended: a press whose release edge is handled exactly 3000 ms after
\* its press edge publishes [PRESSED, RELEASED, LONGPRESS] when the timer
\* expiry ran before the release callback stopped the timer, and
\* [PRESSED, RELEASED] when the release callback stopped the timer first.
C3_ThresholdByOrder ==
    (alternating /\ ReleaseDone /\ held_ms = LONGPRESS_MS) =>
        Cycle = IF expired
                THEN <<BUTTON_EVT_PRESSED, BUTTON_EVT_RELEASED, BUTTON_EVT_LONGPRESS>>
                ELSE <<BUTTON_EVT_PRESSED, BUTTON_EVT_RELEASED>>

C3_Witness ==
    /\ alternating
    /\ ReleaseDone
    /\ held_ms = LONGPRESS_MS
    /\ ~expired
    /\ Cycle = <<BUTTON_EVT_PRESSED, BUTTON_EVT_RELEASED>>

\* C4: in every execution, whenever LONGPRESS is published the event
\* published immediately before it is RELEASED; LONGPRESS never directly
\* follows PRESSED or another LONGPRESS.
C4_LongpressAfterReleased ==
    \A i \in DOMAIN published :
        published[i] = BUTTON_EVT_LONGPRESS =>
            (i > 1 /\ published[i - 1] = BUTTON_EVT_RELEASED)

\* every RELEASED at position i has a PRESSED before it with no RELEASED between
ReleasedPrecededByPressed ==
    \A i \in DOMAIN published :
        published[i] = BUTTON_EVT_RELEASED =>
            \E j \in 1..(i - 1) :
                /\ published[j] = BUTTON_EVT_PRESSED
                /\ \A k \in (j + 1)..(i - 1) : published[k] # BUTTON_EVT_RELEASED

\* C5, as claimed: for any sequence of edge callbacks, whatever level each
\* samples, every RELEASED is preceded by a PRESSED with no RELEASED between
\* them, and no RELEASED is published before the first PRESSED.
C5_ReleasedAfterPressed == ReleasedPrecededByPressed

\* C5, amended: when the callbacks sample alternating levels beginning with
\* pressed, every RELEASED is preceded by a PRESSED with no RELEASED between
\* them, and no RELEASED is published before the first PRESSED.
C5_ReleasedAfterPressedAlternating == alternating => ReleasedPrecededByPressed

C5_Witness ==
    /\ alternating
    /\ ReleaseDone
    /\ cycle_start >= 2
    /\ published[cycle_start] \in {BUTTON_EVT_RELEASED, BUTTON_EVT_LONGPRESS}

\* C6: no publish call of the callback carries UNDEFINED: the first publish
\* of a callback carries PRESSED or RELEASED, the second only LONGPRESS.
C6_NeverUndefined ==
    /\ \A i \in DOMAIN published : published[i] # BUTTON_EVT_UNDEFINED
    /\ pc = "publish" => msg \in {BUTTON_EVT_PRESSED, BUTTON_EVT_RELEASED}
    /\ pc = "publish_long" => msg = BUTTON_EVT_LONGPRESS

C6_Witness ==
    /\ pc = "publish_long"
    /\ Len(published) >= 2
    /\ published[Len(published)] = BUTTON_EVT_RELEASED

\* C7: after any release-path callback has returned, longpress_detected is
\* false and the timer is not pending, so the next cycle is classified by its
\* own hold duration whatever the cycle before it was; two short cycles
\* publish [PRESSED, RELEASED, PRESSED, RELEASED].
C7_CyclesIndependent ==
    /\ (pc = "idle" /\ ~last_level) => (~longpress_detected /\ ~timer_running)
    /\ (alternating /\ ReleaseDone /\ cycle_start > 0) =>
           /\ held_ms < LONGPRESS_MS =>
                  Cycle = <<BUTTON_EVT_PRESSED, BUTTON_EVT_RELEASED>>
           /\ held_ms > LONGPRESS_MS =>
                  Cycle = <<BUTTON_EVT_PRESSED, BUTTON_EVT_RELEASED, BUTTON_EVT_LONGPRESS>>
    /\ (alternating /\ ReleaseDone /\ cycle_start = 2 /\ held_ms < LONGPRESS_MS) =>
           published = <<BUTTON_EVT_PRESSED, BUTTON_EVT_RELEASED,
                         BUTTON_EVT_PRESSED, BUTTON_EVT_RELEASED>>

C7_Witness ==
    /\ alternating
    /\ ReleaseDone
    /\ held_ms < LONGPRESS_MS
    /\ published = <<BUTTON_EVT_PRESSED, BUTTON_EVT_RELEASED, BUTTON_EVT_LONGPRESS,
                     BUTTON_EVT_PRESSED, BUTTON_EVT_RELEASED>>

\* C8: publication is non-blocking and best-effort: every publish offers the
\* event once and the callback goes on to its next statement whatever the
\* channel answers, with longpress_detected and the timer as they were; a
\* rejected event is not offered again.
C8_PublishBestEffort ==
    [][published' # published =>
          /\ pc \in {"publish", "publish_long"}
          /\ published' = Append(published, msg)
          /\ pub_rc' \in PubRets
          /\ pc' = (IF pc = "publish" THEN "check" ELSE "clear")
          /\ UNCHANGED <<msg, longpress_detected, timer_running, timer_remaining>>]_vars

C8_Witness ==
    /\ pc = "check"
    /\ pub_rc # 0
    /\ longpress_detected
    /\ published[Len(published)] = BUTTON_EVT_RELEASED

\* C9: button_init returns -ENODEV without attempting to configure the pin
\* when the device is not ready, the non-zero configuration error when the
\* configuration is rejected, and 0 only when the device was ready and the
\* pin was configured as input; it makes one attempt.
C9_ButtonInit ==
    InitCalled =>
        /\ ~gpio_ready => (init_ret = -ENODEV /\ configure_calls = 0)
        /\ (gpio_ready /\ gpio_cfg_ret # 0) =>
               (init_ret = gpio_cfg_ret /\ init_ret # 0 /\ ~pin_configured)
        /\ init_ret = 0 <=> (gpio_ready /\ gpio_cfg_ret = 0 /\ pin_configured)
        /\ gpio_ready => configure_calls = 1

C9_Witness ==
    /\ InitCalled
    /\ init_ret = -ENODEV
    /\ ~gpio_ready
    /\ gpio_cfg_ret = 0
    /\ configure_calls = 0

\* C10: button_enable_interrupts returns the error code and does not
\* register the callback when the interrupt configuration is rejected, and
\* then no button event is ever published; it returns 0 only after both-edge
\* interrupts were configured and the callback was registered.
C10_EnableInterrupts ==
    /\ EnableCalled =>
           /\ gpio_int_ret # 0 =>
                  (enable_ret = gpio_int_ret /\ ~callback_registered /\ ~int_configured)
           /\ enable_ret = 0 <=> (int_configured /\ callback_registered)
    /\ (EnableCalled /\ enable_ret # 0) =>
           (published = <<>> /\ pc = "idle")

C10_Witness ==
    /\ EnableCalled
    /\ enable_ret = -22
    /\ init_ret = 0

\* C11: in every entry point interrupts are enabled only after
\* initialization: button_enable_interrupts is never called before
\* button_init has been called and has succeeded, so the edge callback never
\* runs on an unconfigured pin.
C11_EnableOnlyAfterInitSucceeded ==
    /\ EnableCalled => (InitCalled /\ init_ret = 0)
    /\ callback_registered => pin_configured
    /\ pc # "idle" => pin_configured

\* C12: a stale timer never leaks into a later press: at most one countdown
\* is pending, it is due 3000 ms after the most recent press-path callback,
\* and LONGPRESS is published for a press only when 3000 ms have passed since
\* that press's own callback, also when the earlier press's release edge was
\* missed and the old expiry fires while the new press-path callback executes.
C12_NoStaleLongpress ==
    /\ (timer_running /\ pc = "idle") => timer_remaining + held_ms = LONGPRESS_MS
    /\ \A i \in DOMAIN Cycle :
           Cycle[i] = BUTTON_EVT_LONGPRESS => held_ms >= LONGPRESS_MS
    /\ pc \in {"publish_long", "clear"} => held_ms >= LONGPRESS_MS

\* the events published by the most recent invocation of button_pressed
Invocation == SubSeq(published, call_start + 1, Len(published))

\* C13: each invocation of the edge callback classifies the edge from the
\* pin level it samples alone: it publishes PRESSED when the level is active
\* and RELEASED otherwise, first, and at most one LONGPRESS after it; an
\* invocation publishes one or two events, never zero.
C13_OneOrTwoEvents ==
    /\ [](pc \in {"check", "publish_long", "clear"} =>
            Invocation[1] = (IF last_level THEN BUTTON_EVT_PRESSED
                             ELSE BUTTON_EVT_RELEASED))
    /\ [][(pc # "idle" /\ pc' = "idle") =>
            /\ Len(Invocation') \in {1, 2}
            /\ Invocation'[1] = (IF last_level THEN BUTTON_EVT_PRESSED
                                 ELSE BUTTON_EVT_RELEASED)
            /\ Len(Invocation') = 2 => Invocation'[2] = BUTTON_EVT_LONGPRESS]_vars

C13_Witness ==
    /\ pc = "idle"
    /\ ~alternating
    /\ ~last_level
    /\ Invocation = <<BUTTON_EVT_RELEASED, BUTTON_EVT_LONGPRESS>>

\* C14: the timer expiry publishes nothing, it only sets longpress_detected;
\* so nothing is published between a PRESSED and the next edge callback, and
\* when the button is pressed and no further edge arrives LONGPRESS is never
\* published, however long the button is held.
C14_ExpiryPublishesNothing ==
    /\ [][(longpress_detected' /\ ~longpress_detected) =>
            UNCHANGED <<published, pub_rc, msg, pc>>]_vars
    /\ [][pc = "idle" => published' = published]_vars
    /\ []((alternating /\ PressDone) => Cycle = <<BUTTON_EVT_PRESSED>>)

C14_Witness ==
    /\ alternating
    /\ PressDone
    /\ held_ms = MaxHeld
    /\ longpress_detected
    /\ ~timer_running
    /\ Cycle = <<BUTTON_EVT_PRESSED>>

\* the number of RELEASED events in a sequence of events
RECURSIVE CountReleased(_)
CountReleased(evts) ==
    IF evts = <<>> THEN 0
    ELSE (IF Head(evts) = BUTTON_EVT_RELEASED THEN 1 ELSE 0) + CountReleased(Tail(evts))

\* C15: under duplicate press edges the hold is measured from the most
\* recent press-path callback: every press-path callback returns with the
\* flag clear and the countdown re-armed to a full 3000 ms, so a release-path
\* callback publishes LONGPRESS only if at least 3000 ms passed since the
\* most recent press-path callback with no release-path callback in between.
C15_HoldFromLatestPress ==
    /\ (PressDone /\ held_ms = 0) =>
           (~longpress_detected /\ timer_running /\ timer_remaining = LONGPRESS_MS)
    /\ (~last_level /\ pc \in {"publish_long", "clear"}) =>
           (held_ms >= LONGPRESS_MS /\ CountReleased(Cycle) = 1)
    /\ (ReleaseDone /\ Len(Invocation) = 2) =>
           (held_ms >= LONGPRESS_MS /\ CountReleased(Cycle) = 1)

C15_Witness ==
    /\ ~alternating
    /\ ReleaseDone
    /\ cycle_start >= 2
    /\ published[cycle_start] = BUTTON_EVT_PRESSED
    /\ held_ms = LONGPRESS_MS
    /\ Invocation = <<BUTTON_EVT_RELEASED, BUTTON_EVT_LONGPRESS>>

\* C16: whenever no edge callback is executing, longpress_detected is true
\* only if the timer is not pending and the most recent callback took the
\* press path: the flag is true exactly from the expiry of that press's
\* countdown until the next edge callback, the flag and a pending countdown
\* are never both set, and every edge callback returns with the flag false.
C16_FlagBetweenCallbacks ==
    /\ [](pc = "idle" => (longpress_detected <=> (last_level /\ ~timer_running)))
    /\ [](pc = "idle" => ~(longpress_detected /\ timer_running))
    /\ [][(pc # "idle" /\ pc' = "idle") => ~longpress_detected']_vars

C16_Witness ==
    /\ PressDone
    /\ ~alternating
    /\ longpress_detected
    /\ ~timer_running
    /\ held_ms = LONGPRESS_MS

====
